---- MODULE Spec2Model ----
(***************************************************************************)
(* State-machine model of the two command-line scripts of the repository:  *)
(*   scripts/faster_whisper_transcribe.py   (transcription runner)         *)
(*   scripts/update_github_issues_snapshot.py (issue snapshot generator)   *)
(* Strings are sequences of one-character strings.                         *)
(***************************************************************************)
EXTENDS Integers, Sequences, FiniteSets, TLC

VARIABLES
    pc,             \* position of the transcription runner
    args,           \* the parsed command line (NoArgs before parse_args returns)
    outDir,         \* does the parent directory of --output exist
    outFile,        \* the file at --output: [exists, data]
    calls,          \* calls made into the faster_whisper library, in order
    yielded,        \* the segment objects the library has yielded so far
    i,              \* the enumerate() counter of the segment loop
    segments_list,  \* transcribe_audio's segments_list
    full_text,      \* transcribe_audio's full_text
    segment_count,  \* transcribe_audio's segment_count
    result,         \* the assembled document (<<>> while there is none)
    stderr,         \* the kind of the last error report
    exitCode,       \* the exit status (NoExit while the process runs)
    sumPc,          \* summarize: "call" before the call, "done" after it
    sumIn,          \* summarize: the text argument
    sumOut,         \* summarize: the returned string
    snapPc,         \* position of the snapshot generator
    issues,         \* the issue records returned by fetch_issues
    lines,          \* the tables of the rendered document: [open, closed]
    snapExit        \* exit status of the snapshot generator

runVars == <<pc, args, outDir, outFile, calls, yielded, i, segments_list,
             full_text, segment_count, result, stderr, exitCode>>

sumVars == <<sumPc, sumIn, sumOut>>

snapVars == <<snapPc, issues, lines, snapExit>>

vars == <<runVars, sumVars, snapVars>>

----------------------------------------------------------------------------
(* Bounds of the model *)

MaxSegs == 2
MaxTextLen == 2
MaxWords == 2
MaxPad == 2
MaxOver == 2
MaxTail == 2
MaxIssues == 6

----------------------------------------------------------------------------
(* Strings *)

Whitespace == {" ", "\t", "\n"}

IsSpace(c) == c \in Whitespace

\* the number of whitespace characters s starts with
LeadingSpaces(s) ==
    Cardinality({k \in 1..Len(s) : \A j \in 1..k : IsSpace(s[j])})

\* the number of whitespace characters s ends with
TrailingSpaces(s) ==
    Cardinality({k \in 1..Len(s) : \A j \in 0..(k - 1) : IsSpace(s[Len(s) - j])})

LStrip(s) == SubSeq(s, LeadingSpaces(s) + 1, Len(s))

RStrip(s) == SubSeq(s, 1, Len(s) - TrailingSpaces(s))

\* str.strip()
Strip(s) == RStrip(LStrip(s))

RECURSIVE StringsUpTo(_, _)
StringsUpTo(alphabet, n) ==
    IF n = 0 THEN {<<>>}
    ELSE LET shorter == StringsUpTo(alphabet, n - 1)
         IN  shorter \cup {Append(s, c) : s \in shorter, c \in alphabet}

----------------------------------------------------------------------------
(* Transcription runner: values *)

NoArgs == [parsed |-> FALSE]
NoExit == -1

\* None where a string is expected: no string, since strings hold single characters
None == <<"None">>

\* --batch_size when the option is absent (None); <<n>> when it is n
NoBatchSize == <<>>

BatchSizes == {NoBatchSize} \cup {<<n>> : n \in {-1, 0, 1, 2, 3}}

Inputs == {"audio.wav", "missing.wav"}
ExistingInputs == {"audio.wav"}

ArgsSet ==
    [parsed : {TRUE}, input : Inputs, batch_size : BatchSizes,
     word_timestamps : BOOLEAN]

Absent == [exists |-> FALSE, data |-> <<>>]
OldFile == [exists |-> TRUE, data |-> <<[key |-> "old", val |-> <<>>]>>]

\* A word entry of a segment
Word(k) == [start |-> k, end |-> k + 1, word |-> k, probability |-> 1]

RECURSIVE WordList(_)
WordList(n) == IF n = 0 THEN <<>> ELSE Append(WordList(n - 1), Word(n))

\* The words attribute of a segment object: missing, or a (possibly empty) list
NoWordsAttr == [has |-> FALSE, list |-> <<>>]
WordsAttrs == {NoWordsAttr} \cup {[has |-> TRUE, list |-> WordList(n)] : n \in 0..MaxWords}

Texts == StringsUpTo({"a", " "}, MaxTextLen)

Seg(t, w, id, start) == [text |-> t, words |-> w, id |-> id, start |-> start, end |-> start + 1]

\* The segment objects the library may yield: every text, every words
\* attribute, and ids and timings unrelated to the position in the sequence.
SegmentSet ==
    {Seg(t, NoWordsAttr, 1, 0) : t \in Texts}
    \cup {Seg(<<"a">>, w, id, 2 - id) : w \in WordsAttrs, id \in {1, 2}}

----------------------------------------------------------------------------
(* transcribe_audio *)

\* a slip of the condition: "if batch_size:"
UseBatched_AnySupplied(batch_size) ==
    /\ batch_size # NoBatchSize
    /\ batch_size[1] # 0

\* batch_size and batch_size > 1
UseBatched(batch_size) ==
    /\ batch_size # NoBatchSize
    /\ batch_size[1] # 0
    /\ batch_size[1] > 1

\* a slip of the condition: the toggle is not consulted
CarriesWords_IgnoreToggle(word_timestamps, segment) ==
    /\ segment.words.has
    /\ segment.words.list # <<>>

\* word_timestamps and hasattr(segment, 'words') and segment.words
CarriesWords(word_timestamps, segment) ==
    /\ word_timestamps
    /\ segment.words.has
    /\ segment.words.list # <<>>

WordData(word) ==
    [start |-> word.start, end |-> word.end, word |-> word.word,
     probability |-> word.probability]

\* a slip: the id of the underlying segment object is copied
SegmentId_FromSegment(k, segment) == segment.id

\* "id": i
SegmentId(k, segment) == k

SegmentData(k, segment, word_timestamps) ==
    LET base == [id |-> SegmentId(k, segment), start |-> segment.start,
                 end |-> segment.end, text |-> Strip(segment.text)]
    IN  IF CarriesWords(word_timestamps, segment)
        THEN [id |-> base.id, start |-> base.start, end |-> base.end,
              text |-> base.text,
              words |-> [n \in 1..Len(segment.words.list) |->
                            WordData(segment.words.list[n])]]
        ELSE base

\* a slip: the segment text is appended untrimmed
AppendText_NoTrim(text, segment) == text \o segment.text \o <<" ">>

\* full_text += segment.text.strip() + " "
AppendText(text, segment) == text \o Strip(segment.text) \o <<" ">>

\* "text": full_text.strip()
FinalText(text) == Strip(text)

\* WhisperModel(...)
LoadModel ==
    /\ UNCHANGED <<sumVars, snapVars>>
    /\ pc = "load"
    /\ calls' = Append(calls, "WhisperModel")
    /\ pc' = "infer"
    /\ UNCHANGED <<args, outDir, outFile, yielded, i, segments_list, full_text,
                   segment_count, result, stderr, exitCode>>

\* batched_model.transcribe(...) or model.transcribe(...), then the loop's setup
Transcribe ==
    /\ UNCHANGED <<sumVars, snapVars>>
    /\ pc = "infer"
    /\ calls' = Append(calls,
                       IF UseBatched(args.batch_size)
                       THEN "BatchedInferencePipeline.transcribe"
                       ELSE "WhisperModel.transcribe")
    /\ segments_list' = <<>>
    /\ full_text' = <<>>
    /\ segment_count' = 0
    /\ i' = 0
    /\ pc' = "segments"
    /\ UNCHANGED <<args, outDir, outFile, yielded, result, stderr, exitCode>>

\* one iteration of: for i, segment in enumerate(segments)
ConsumeSegment ==
    /\ UNCHANGED <<sumVars, snapVars>>
    /\ pc = "segments"
    /\ Len(yielded) < MaxSegs
    /\ \E segment \in SegmentSet :
        /\ yielded' = Append(yielded, segment)
        /\ segments_list' =
               Append(segments_list, SegmentData(i, segment, args.word_timestamps))
        /\ full_text' = AppendText(full_text, segment)
    /\ segment_count' = i + 1
    /\ i' = i + 1
    /\ UNCHANGED <<pc, args, outDir, outFile, calls, result, stderr, exitCode>>

\* the sequence is exhausted: the result is prepared and returned to main
BuildResult ==
    /\ UNCHANGED <<sumVars, snapVars>>
    /\ pc = "segments"
    /\ result' = <<[text |-> FinalText(full_text), segments |-> segments_list]>>
    /\ pc' = "save"
    /\ UNCHANGED <<args, outDir, outFile, calls, yielded, i, segments_list,
                   full_text, segment_count, stderr, exitCode>>

----------------------------------------------------------------------------
(* main *)

\* json.dump(result, f, indent=2, ...) streams the document in chunks
Encode(doc) ==
    <<[key |-> "text", val |-> doc.text]>>
    \o [n \in 1..Len(doc.segments) |-> [key |-> "segment", val |-> doc.segments[n]]]
    \o <<[key |-> "info", val |-> <<>>]>>

\* sys.exit(code) after a report on stderr
Exit(code, report) ==
    /\ exitCode' = code
    /\ stderr' = report
    /\ pc' = "done"

\* parser.parse_args(): the arguments, or argparse's own exit
ParseArgs ==
    /\ UNCHANGED <<sumVars, snapVars>>
    /\ pc = "parse"
    /\ \/ /\ \E a \in ArgsSet : args' = a
          /\ pc' = "validate"
          /\ UNCHANGED <<stderr, exitCode>>
       \/ /\ Exit(2, "usage")
          /\ UNCHANGED args
       \/ /\ Exit(0, "help")
          /\ UNCHANGED args
    /\ UNCHANGED <<outDir, outFile, calls, yielded, i, segments_list, full_text,
                   segment_count, result>>

\* a slip: the existence of the input is not checked
ValidateInput_NoCheck ==
    /\ UNCHANGED <<sumVars, snapVars>>
    /\ pc = "validate"
    /\ pc' = "mkdir"
    /\ UNCHANGED <<stderr, exitCode>>
    /\ UNCHANGED <<args, outDir, outFile, calls, yielded, i, segments_list,
                   full_text, segment_count, result>>

\* if not Path(args.input).exists(): ... sys.exit(1)
ValidateInput ==
    /\ UNCHANGED <<sumVars, snapVars>>
    /\ pc = "validate"
    /\ IF args.input \notin ExistingInputs
       THEN Exit(1, "input_not_found")
       ELSE /\ pc' = "mkdir"
            /\ UNCHANGED <<stderr, exitCode>>
    /\ UNCHANGED <<args, outDir, outFile, calls, yielded, i, segments_list,
                   full_text, segment_count, result>>

\* Path(args.output).parent.mkdir(parents=True, exist_ok=True), outside the try
MakeOutputDir ==
    /\ UNCHANGED <<sumVars, snapVars>>
    /\ pc = "mkdir"
    /\ \/ /\ outDir' = TRUE
          /\ pc' = "load"
          /\ UNCHANGED <<stderr, exitCode>>
       \/ /\ ~outDir
          /\ Exit(1, "traceback")
          /\ UNCHANGED outDir
    /\ UNCHANGED <<args, outFile, calls, yielded, i, segments_list, full_text,
                   segment_count, result>>

\* an exception raised inside the try block by the model load, the inference
\* call or the consumption of the lazy segment sequence
TranscribeRaises ==
    /\ UNCHANGED <<sumVars, snapVars>>
    /\ pc \in {"load", "infer", "segments"}
    /\ Exit(1, "during_transcription")
    /\ UNCHANGED <<args, outDir, outFile, calls, yielded, i, segments_list,
                   full_text, segment_count, result>>

\* a slip: an exception of json.dump is swallowed and the run ends as a success
SaveResult_SwallowsError ==
    /\ UNCHANGED <<sumVars, snapVars>>
    /\ pc = "save"
    /\ \/ /\ Exit(1, "during_transcription")
          /\ UNCHANGED outFile
       \/ \E n \in 0..(Len(Encode(result[1])) - 1) :
            /\ outFile' = [exists |-> TRUE, data |-> SubSeq(Encode(result[1]), 1, n)]
            /\ Exit(0, "completed")
       \/ /\ outFile' = [exists |-> TRUE, data |-> Encode(result[1])]
          /\ Exit(0, "completed")
    /\ UNCHANGED <<args, outDir, calls, yielded, i, segments_list, full_text,
                   segment_count, result>>

\* with open(args.output, 'w') as f: json.dump(result, f, ...)
\* open() may raise; once open the file is truncated, json.dump writes the
\* chunks in order and may raise after any number of them.
SaveResult ==
    /\ UNCHANGED <<sumVars, snapVars>>
    /\ pc = "save"
    /\ \/ /\ Exit(1, "during_transcription")
          /\ UNCHANGED outFile
       \/ \E n \in 0..(Len(Encode(result[1])) - 1) :
            /\ outFile' = [exists |-> TRUE, data |-> SubSeq(Encode(result[1]), 1, n)]
            /\ Exit(1, "during_transcription")
       \/ /\ outFile' = [exists |-> TRUE, data |-> Encode(result[1])]
          /\ Exit(0, "completed")
    /\ UNCHANGED <<args, outDir, calls, yielded, i, segments_list, full_text,
                   segment_count, result>>

RunInit ==
    /\ pc = "parse"
    /\ args = NoArgs
    /\ \E fs \in {<<FALSE, Absent>>, <<TRUE, Absent>>, <<TRUE, OldFile>>} :
        /\ outDir = fs[1]
        /\ outFile = fs[2]
    /\ calls = <<>>
    /\ yielded = <<>>
    /\ i = 0
    /\ segments_list = <<>>
    /\ full_text = <<>>
    /\ segment_count = 0
    /\ result = <<>>
    /\ stderr = "none"
    /\ exitCode = NoExit

SumIdle ==
    /\ sumPc = "idle"
    /\ sumIn = <<>>
    /\ sumOut = <<>>

SnapIdle ==
    /\ snapPc = "idle"
    /\ issues = <<>>
    /\ lines = [open |-> <<>>, closed |-> <<>>]
    /\ snapExit = NoExit

RunIdle ==
    /\ pc = "idle"
    /\ args = NoArgs
    /\ outDir = FALSE
    /\ outFile = Absent
    /\ calls = <<>>
    /\ yielded = <<>>
    /\ i = 0
    /\ segments_list = <<>>
    /\ full_text = <<>>
    /\ segment_count = 0
    /\ result = <<>>
    /\ stderr = "none"
    /\ exitCode = NoExit

Init == RunInit /\ SumIdle /\ SnapIdle

Next ==
    \/ ParseArgs
    \/ ValidateInput
    \/ MakeOutputDir
    \/ LoadModel
    \/ Transcribe
    \/ ConsumeSegment
    \/ BuildResult
    \/ TranscribeRaises
    \/ SaveResult

Spec == Init /\ [][Next]_vars

----------------------------------------------------------------------------
(* Issue snapshot generator: summarize *)

SummaryLimit == 140

NoDescription == <<"N", "o", " ", "d", "e", "s", "c", "r", "i", "p", "t", "i", "o", "n">>

Ellipsis == <<".", ".", ".">>

\* s[:n]
Take(s, n) == SubSeq(s, 1, IF Len(s) < n THEN Len(s) ELSE n)

\* text or ""
OrEmpty(text) == IF text = None \/ text = <<>> THEN <<>> ELSE text

\* the length of the run of non-whitespace characters that starts at s[k]
WordLen(s, k) ==
    Cardinality({n \in k..Len(s) : \A j \in k..n : ~IsSpace(s[j])})

\* str.split(): the maximal runs of non-whitespace characters of s, in order
RECURSIVE Split(_)
Split(s) ==
    LET rest == LStrip(s)
        n == WordLen(rest, 1)
    IN  IF rest = <<>> THEN <<>>
        ELSE <<SubSeq(rest, 1, n)>> \o Split(SubSeq(rest, n + 1, Len(rest)))

\* sep.join(words)
RECURSIVE JoinWith(_, _)
JoinWith(sep, words) ==
    IF words = <<>> THEN <<>>
    ELSE IF Len(words) = 1 THEN words[1]
    ELSE words[1] \o sep \o JoinWith(sep, Tail(words))

\* " ".join(words)
JoinSpace(words) == JoinWith(<<" ">>, words)

\* a slip: the slice keeps limit - 2 characters
Summarize_OffByOne(text, limit) ==
    LET summary == JoinSpace(Split(Strip(OrEmpty(text))))
    IN  IF summary = <<>> THEN NoDescription
        ELSE IF Len(summary) <= limit THEN summary
        ELSE Take(summary, limit - 2) \o Ellipsis

\* a slip: the text is cut at the limit and no ellipsis is appended
Summarize_NoEllipsis(text, limit) ==
    LET summary == JoinSpace(Split(Strip(OrEmpty(text))))
    IN  IF summary = <<>> THEN NoDescription
        ELSE IF Len(summary) <= limit THEN summary
        ELSE Take(summary, limit)

Summarize(text, limit) ==
    LET summary == JoinSpace(Split(Strip(OrEmpty(text))))
    IN  IF summary = <<>> THEN NoDescription
        ELSE IF Len(summary) <= limit THEN summary
        ELSE Take(summary, limit - 3) \o Ellipsis

\* c repeated n times
Rep(c, n) == [k \in 1..n |-> c]

\* the lengths of the words of the inputs: short ones and those around the limit
WordLens == {0, 1} \cup ((SummaryLimit - 4)..(SummaryLimit + MaxOver))

\* the whitespace runs between the two words of an input
Gaps == {Rep(" ", n) : n \in 0..MaxPad} \cup {<<"\t", "\n">>, Rep(" ", SummaryLimit)}

\* the texts summarize is applied to: None and
\* <spaces> a..a <gap> b..b <newlines>
SummarizeInputs ==
    {None}
    \cup {Rep(" ", lead) \o Rep("a", n) \o gap \o Rep("b", m) \o Rep("\n", trail) :
            lead \in 0..MaxPad, n \in WordLens, gap \in Gaps,
            m \in 0..MaxTail, trail \in 0..MaxPad}

SumInit ==
    /\ sumPc = "call"
    /\ \E in \in SummarizeInputs : sumIn = in
    /\ sumOut = <<>>

\* summarize(text) with the default limit
SummarizeCall ==
    /\ sumPc = "call"
    /\ sumOut' = Summarize(sumIn, SummaryLimit)
    /\ sumPc' = "done"
    /\ UNCHANGED <<sumIn, runVars, snapVars>>

InitSummarize == RunIdle /\ SumInit /\ SnapIdle

NextSummarize == SummarizeCall

SpecSummarize == InitSummarize /\ [][NextSummarize]_vars

----------------------------------------------------------------------------
(* Issue snapshot generator: generate *)

RecentLimit == 5
DateLen == 10

\* the em-dash, one character
EmDash == <<"EM DASH">>

Digits == <<"0", "1", "2", "3", "4", "5", "6", "7", "8", "9">>

\* the characters of a timestamp in the order of their code points
CharOrder == <<"-">> \o Digits \o <<":", "T", "Z">>

Code(c) == CHOOSE k \in 1..Len(CharOrder) : CharOrder[k] = c

\* a < b for two strings: Python compares them character by character
StrLess(a, b) ==
    \E k \in 1..Len(b) :
        /\ k - 1 <= Len(a)
        /\ \A j \in 1..(k - 1) : a[j] = b[j]
        /\ (k > Len(a) \/ Code(a[k]) < Code(b[k]))

\* the API's timestamp of day d, hour h: "2024-01-0dT0h:00:00Z"
Stamp(d, h) ==
    <<"2", "0", "2", "4", "-", "0", "1", "-", "0", Digits[d + 1], "T",
      "0", Digits[h + 1], ":", "0", "0", ":", "0", "0", "Z">>

Stamps == {Stamp(1, 0), Stamp(1, 1), Stamp(2, 0)}

\* what varies between the issues of a response
IssueKinds ==
    {[state |-> "open", closed_at |-> None, body |-> <<" ", "a", "\n", " ", "b">>,
      labels |-> <<<<"b", "u", "g">>, <<"u", "i">>>>],
     [state |-> "closed", closed_at |-> None, body |-> None, labels |-> <<>>]}
    \cup {[state |-> "closed", closed_at |-> t, body |-> <<>>, labels |-> <<>>] : t \in Stamps}

Issue(n, kind) ==
    [number |-> n, title |-> <<"t">>, created_at |-> Stamp(1, 0), state |-> kind.state,
     closed_at |-> kind.closed_at, body |-> kind.body, labels |-> kind.labels]

\* a response of the API: the issue records of the kinds f[1], ..., f[k]
IssueList(k, f) == [n \in 1..k |-> Issue(n, f[n])]

\* issue.get("closed_at") or ""
ClosedKey(issue) == OrEmpty(issue.closed_at)

\* a slip: reverse=True is missing, the list is sorted ascending
RECURSIVE SortedByClosed_Ascending(_)
SortedByClosed_Ascending(list) ==
    IF list = <<>> THEN <<>>
    ELSE LET front == SortedByClosed_Ascending(SubSeq(list, 1, Len(list) - 1))
             x == list[Len(list)]
             p == Cardinality({k \in 1..Len(front) :
                                 ~StrLess(ClosedKey(x), ClosedKey(front[k]))})
         IN  SubSeq(front, 1, p) \o <<x>> \o SubSeq(front, p + 1, Len(front))

\* sorted(list, key=..., reverse=True): descending by key, and stable (issues
\* with equal keys keep the order of the list)
RECURSIVE SortedByClosed(_)
SortedByClosed(list) ==
    IF list = <<>> THEN <<>>
    ELSE LET front == SortedByClosed(SubSeq(list, 1, Len(list) - 1))
             x == list[Len(list)]
             p == Cardinality({k \in 1..Len(front) :
                                 ~StrLess(ClosedKey(front[k]), ClosedKey(x))})
         IN  SubSeq(front, 1, p) \o <<x>> \o SubSeq(front, p + 1, Len(front))

\* (... or "")[:10] or the em-dash
OrDash(s) == IF s = <<>> THEN EmDash ELSE s

OpenRow(issue) ==
    [kind |-> "row", number |-> issue.number, title |-> issue.title,
     labels |-> OrDash(JoinWith(<<",", " ">>, issue.labels)),
     created |-> Take(issue.created_at, DateLen),
     notes |-> Summarize(issue.body, SummaryLimit)]

ClosedRow(issue) ==
    [kind |-> "row", number |-> issue.number, title |-> issue.title,
     closed |-> OrDash(Take(OrEmpty(issue.closed_at), DateLen)),
     notes |-> Summarize(issue.body, SummaryLimit)]

\* build_table: the lines of a table
BuildTable(list, open_only) ==
    IF open_only
    THEN IF list = <<>>
         THEN <<[kind |-> "none"]>>
         ELSE <<[kind |-> "header"], [kind |-> "separator"]>>
              \o [n \in 1..Len(list) |-> OpenRow(list[n])]
              \o <<[kind |-> "blank"]>>
    ELSE <<[kind |-> "header"], [kind |-> "separator"]>>
         \o [n \in 1..Len(list) |-> ClosedRow(list[n])]

IsOpen(issue) == issue["state"] = "open"

IsClosed(issue) == issue["state"] = "closed"

\* fetch_issues(repo): the response, or an exception that ends the process
FetchIssues ==
    /\ snapPc = "fetch"
    /\ \/ /\ \E k \in 0..MaxIssues : \E f \in [1..k -> IssueKinds] :
                issues' = IssueList(k, f)
          /\ snapPc' = "fetched"
          /\ UNCHANGED snapExit
       \/ /\ snapExit' = 1
          /\ snapPc' = "done"
          /\ UNCHANGED issues
    /\ UNCHANGED <<lines, runVars, sumVars>>

\* the rest of generate: partition, sort, render, write
Generate ==
    /\ snapPc = "fetched"
    /\ LET open_issues == SelectSeq(issues, IsOpen)
           closed_issues == SelectSeq(issues, IsClosed)
           closed_sorted == Take(SortedByClosed(closed_issues), RecentLimit)
       IN  lines' = [open |-> BuildTable(open_issues, TRUE),
                     closed |-> BuildTable(closed_sorted, FALSE)]
    /\ snapPc' = "done"
    /\ \/ snapExit' = 0
       \/ snapExit' = 1
    /\ UNCHANGED <<issues, runVars, sumVars>>

SnapInit ==
    /\ snapPc = "fetch"
    /\ issues = <<>>
    /\ lines = [open |-> <<>>, closed |-> <<>>]
    /\ snapExit = NoExit

InitSnapshot == RunIdle /\ SumIdle /\ SnapInit

NextSnapshot ==
    \/ FetchIssues
    \/ Generate

SpecSnapshot == InitSnapshot /\ [][NextSnapshot]_vars

----------------------------------------------------------------------------
(* Properties of the transcription runner *)

InputMissing == args.parsed /\ args.input \notin ExistingInputs

HasResult == result # <<>>

Document == result[1]

DocumentWritten == HasResult /\ outFile = [exists |-> TRUE, data |-> Encode(Document)]

PathCalls == {"BatchedInferencePipeline.transcribe", "WhisperModel.transcribe"}

\* the trimmed texts of the yielded segments joined by single spaces
RECURSIVE JoinTrimmed(_)
JoinTrimmed(segs) ==
    IF segs = <<>> THEN <<>>
    ELSE IF Len(segs) = 1 THEN Strip(segs[1].text)
    ELSE Strip(segs[1].text) \o <<" ">> \o JoinTrimmed(Tail(segs))

\* C1: in every run whose --input path does not exist the step taken from the
\* validation ends the process with status 1, and neither before nor in that
\* step is the model loaded, the output directory created or the output file
\* touched.
C1_MissingInputExitsEarly ==
    /\ [](InputMissing => /\ pc \in {"validate", "done"}
                          /\ calls = <<>>
                          /\ result = <<>>
                          /\ (pc = "done" => exitCode = 1 /\ stderr = "input_not_found"))
    /\ [][InputMissing => /\ pc' = "done"
                          /\ exitCode' = 1
                          /\ UNCHANGED <<outDir, outFile, calls>>]_vars

C1_Witness ==
    /\ InputMissing
    /\ pc = "done"
    /\ exitCode = 1
    /\ ~outDir
    /\ outFile = Absent
    /\ calls = <<>>

\* C2 (as claimed): after every failing run the file at --output is either
\* untouched or holds the complete document.
C2_NoPartialOutput ==
    (pc = "done" /\ exitCode # 0) =>
        \/ outFile \in {Absent, OldFile}
        \/ DocumentWritten

\* C3 (as claimed): every run that ends ends with exit code 0 when the document
\* was written and with exit code 1 on any failure; no failure ends otherwise.
C3_ExitZeroOrOne ==
    pc = "done" =>
        /\ DocumentWritten => exitCode = 0
        /\ stderr \in {"usage", "input_not_found", "traceback", "during_transcription"}
             => exitCode = 1

\* C3 (amended): a run whose command line parse_args accepts ends with exit
\* code 0 exactly when the complete document was written to --output and with
\* exit code 1 otherwise (missing input, failure creating the output
\* directory, any exception in the try block); a command line that argparse
\* rejects ends with exit code 2.
C3_ExitCodes ==
    pc = "done" =>
        /\ args.parsed => /\ exitCode \in {0, 1}
                          /\ exitCode = 0 <=> DocumentWritten
                          /\ exitCode = 1 <=> stderr \in {"input_not_found", "traceback",
                                                          "during_transcription"}
        /\ ~args.parsed => /\ exitCode \in {0, 2}
                           /\ exitCode = 2 <=> stderr = "usage"
                           /\ outFile \in {Absent, OldFile}

C3_Witness ==
    /\ pc = "done"
    /\ args.parsed
    /\ exitCode = 1
    /\ stderr = "traceback"
    /\ calls = <<>>

C5_IdsArePositions ==
    /\ Len(segments_list) = Len(yielded)
    /\ \A k \in 1..Len(segments_list) :
        /\ segments_list[k].id = k - 1
        /\ segments_list[k].start = yielded[k].start
        /\ segments_list[k].end = yielded[k].end
        /\ segments_list[k].text = Strip(yielded[k].text)
    /\ HasResult => Document.segments = segments_list

C5_Witness ==
    /\ HasResult
    /\ Len(Document.segments) >= 2
    /\ yielded[1].id = 2
    /\ yielded[2].id = 2
    /\ Document.segments[1].id = 0
    /\ Document.segments[2].id = 1

\* C6: an output segment carries words exactly when the word_timestamps toggle
\* is set and the segment object has a non-empty words sequence; the list then
\* has one entry per word of the segment, in the same order.
C6_WordsOnlyWhenRequested ==
    \A k \in 1..Len(segments_list) :
        /\ ("words" \in DOMAIN segments_list[k])
             <=> (args.word_timestamps /\ yielded[k].words.has
                    /\ Len(yielded[k].words.list) > 0)
        /\ ("words" \in DOMAIN segments_list[k]) =>
             /\ Len(segments_list[k].words) = Len(yielded[k].words.list)
             /\ \A n \in 1..Len(segments_list[k].words) :
                  segments_list[k].words[n] = yielded[k].words.list[n]

C6_Witness ==
    /\ HasResult
    /\ args.word_timestamps
    /\ \E j, k \in 1..Len(Document.segments) :
        /\ "words" \in DOMAIN Document.segments[j]
        /\ Len(Document.segments[j].words) = 2
        /\ Document.segments[j].words[1].word # Document.segments[j].words[2].word
        /\ "words" \notin DOMAIN Document.segments[k]
        /\ yielded[k].words.has

----------------------------------------------------------------------------
(* Properties of summarize *)

\* s[lo..hi] with every run of whitespace replaced by one space
RECURSIVE Squeeze(_, _, _)
Squeeze(s, lo, hi) ==
    IF lo > hi THEN <<>>
    ELSE IF lo = hi THEN <<IF s[lo] \in {" ", "\t", "\n"} THEN " " ELSE s[lo]>>
    ELSE LET mid == (lo + hi) \div 2
             a == Squeeze(s, lo, mid)
             b == Squeeze(s, mid + 1, hi)
         IN  IF a[Len(a)] = " " /\ b[1] = " " THEN a \o Tail(b) ELSE a \o b

\* the whitespace-collapsed, trimmed text
Collapsed(text) ==
    LET t == IF text = None THEN <<>> ELSE text
        q == Squeeze(t, 1, Len(t))
        lo == IF q # <<>> /\ q[1] = " " THEN 2 ELSE 1
        hi == IF q # <<>> /\ q[Len(q)] = " " THEN Len(q) - 1 ELSE Len(q)
    IN  SubSeq(q, lo, hi)

EndsWithEllipsis(s) ==
    /\ Len(s) >= 3
    /\ SubSeq(s, Len(s) - 2, Len(s)) = <<".", ".", ".">>

\* C7 (as claimed): summarize("") is "No description", and every input of
\* 141 or more characters gives exactly 140 characters ending in "...".
C7_LongInputTruncated ==
    sumPc = "done" =>
        /\ sumIn = <<>> => sumOut = NoDescription
        /\ (sumIn # None /\ Len(sumIn) >= 141)
             => (Len(sumOut) = 140 /\ EndsWithEllipsis(sumOut))

\* C7 (amended): summarize("") is "No description", and every input whose
\* whitespace-collapsed, trimmed text has 141 or more characters gives exactly
\* 140 characters ending in "...".
C7_LongSummaryTruncated ==
    sumPc = "done" =>
        /\ sumIn = <<>> => sumOut = NoDescription
        /\ Len(Collapsed(sumIn)) >= 141
             => (Len(sumOut) = 140 /\ EndsWithEllipsis(sumOut))

C7_Witness ==
    /\ sumPc = "done"
    /\ Len(sumIn) = 141
    /\ \A k \in 1..Len(sumIn) : sumIn[k] = "a"
    /\ Len(sumOut) = 140
    /\ EndsWithEllipsis(sumOut)

\* C9: for every input, None and whitespace-only text included, the result is
\* "No description" when the collapsed text c is empty, c when it has at most
\* 140 characters, and otherwise the first 137 characters of c followed by
\* "..."; the result is never empty and never longer than 140 characters.
C9_SummarizeRule ==
    sumPc = "done" =>
        LET c == Collapsed(sumIn)
        IN  /\ sumOut = IF c = <<>> THEN NoDescription
                        ELSE IF Len(c) <= 140 THEN c
                        ELSE SubSeq(c, 1, 137) \o <<".", ".", ".">>
            /\ sumOut # <<>>
            /\ Len(sumOut) <= 140

C9_Witness ==
    /\ sumPc = "done"
    /\ sumIn # None
    /\ Len(sumIn) > Len(Collapsed(sumIn))
    /\ Len(Collapsed(sumIn)) > 140
    /\ \E k \in 1..Len(sumIn) : sumIn[k] = "\t"
    /\ sumOut = SubSeq(Collapsed(sumIn), 1, 137) \o <<".", ".", ".">>

----------------------------------------------------------------------------
(* Properties of generate *)

\* the data rows of a rendered table
DataRows(table) == SelectSeq(table, LAMBDA line : line.kind = "row")

Missing(issue) == issue.closed_at = None

\* the hour a timestamp names, counted from the start of the month
Hours(stamp) ==
    LET digit(c) == (CHOOSE k \in 1..10 : Digits[k] = c) - 1
    IN  (digit(stamp[9]) * 10 + digit(stamp[10])) * 24
        + digit(stamp[12]) * 10 + digit(stamp[13])

\* C8: the closed table has min(5, number of closed issues) data rows, all of
\* closed issues, most recently closed first, those without a closed_at after
\* all that have one, and these with the em-dash in the Closed column.
C8_ClosedTable ==
    snapPc = "done" /\ lines.closed # <<>> =>
        LET rows == DataRows(lines.closed)
            closed == {n \in 1..Len(issues) : issues[n].state = "closed"}
            of(k) == issues[rows[k].number]
        IN  /\ Len(rows) <= 5
            /\ Len(rows) = IF Cardinality(closed) < 5 THEN Cardinality(closed) ELSE 5
            /\ \A k \in 1..Len(rows) :
                /\ rows[k].number \in closed
                /\ Missing(of(k)) => rows[k].closed = EmDash
                /\ ~Missing(of(k)) => rows[k].closed = SubSeq(of(k).closed_at, 1, 10)
            /\ \A j, k \in 1..Len(rows) : j < k =>
                /\ rows[j].number # rows[k].number
                /\ Missing(of(j)) => Missing(of(k))
                /\ (~Missing(of(j)) /\ ~Missing(of(k)))
                     => Hours(of(j).closed_at) >= Hours(of(k).closed_at)

C8_Witness ==
    /\ snapPc = "done"
    /\ snapExit = 0
    /\ Cardinality({n \in 1..Len(issues) : issues[n].state = "closed"}) > 5
    /\ Len(DataRows(lines.closed)) = 5
    /\ DataRows(lines.closed)[5].closed = EmDash
    /\ DataRows(lines.closed)[4].closed # EmDash
    /\ DataRows(lines.closed)[1].closed # DataRows(lines.closed)[4].closed
    /\ issues[1].closed_at = None

====
